---- MODULE Spec2Model ----
(***************************************************************************)
(* Model of the RAG ChatApp backend (backend/app.py, backend/ingest.py).   *)
(*                                                                         *)
(* One FastAPI process: the event loop thread runs the `async def`         *)
(* /upload handler (which blocks in subprocess.run while ingest.py runs),  *)
(* and dispatches the plain `def` /ask handler to worker threads.          *)
(* ingest.py is a separate OS process writing into the persisted Chroma    *)
(* directory; the retriever handle of the app reads that same directory.   *)
(***************************************************************************)
EXTENDS Integers, Sequences, FiniteSets, TLC

\* ---------------------------------------------------------------- bounds
NumUploads == 2
NumAsks == 1
TopK == 2
max_batch_size == 1

Uploads == 1..NumUploads
Asks == 1..NumAsks

\* ------------------------------------------------------------- constants
chunk_size == 900
chunk_overlap == 150

\* A retriever handle: which load created it and the collection contents at
\* that moment. None is the unset global.
None == [set |-> FALSE, id |-> 0, view |-> <<>>]
Handle(n, idx) == [set |-> TRUE, id |-> n, view |-> idx]

\* ------------------------------------------------------- strings & paths
\* Strings the code inspects are sequences of characters.
PDF_DIR == <<"d", "/", "p">>

NameA == <<"a", ".", "p", "d", "f">>
NameB == <<"b", ".", "P", "D", "F">>
NameT == <<"n", ".", "t", "x", "t">>
FileNames == {NameA, NameB, NameT}

lowerChar(c) ==
    CASE c = "P" -> "p"
      [] c = "D" -> "d"
      [] c = "F" -> "f"
      [] OTHER -> c

lower(s) == [i \in 1..Len(s) |-> lowerChar(s[i])]

endswith(s, suf) ==
    /\ Len(s) >= Len(suf)
    /\ SubSeq(s, Len(s) - Len(suf) + 1, Len(s)) = suf

IsPdfName(fname) == endswith(lower(fname), <<".", "p", "d", "f">>)

join(dir, fname) == dir \o <<"/">> \o fname

\* os.path.basename: the part after the last "/"
basename(p) ==
    LET slashes == {i \in 1..Len(p) : p[i] = "/"}
        last == IF slashes = {} THEN 0
                ELSE CHOOSE i \in slashes : \A j \in slashes : j <= i
    IN SubSeq(p, last + 1, Len(p))

IsSpace(c) == c = " "

\* str.strip(): drop leading and trailing whitespace
strip(q) ==
    LET keep == {i \in 1..Len(q) : ~IsSpace(q[i])}
    IN IF keep = {} THEN <<>>
       ELSE LET lo == CHOOSE i \in keep : \A j \in keep : i <= j
                hi == CHOOSE i \in keep : \A j \in keep : j <= i
            IN SubSeq(q, lo, hi)

Questions == { <<" ">>, <<" ", "q">> }

\* payload.sources: Optional[List[str]]
NoSources == [given |-> FALSE, list |-> <<>>]
SourcesOf(l) == [given |-> TRUE, list |-> l]
SourceLists == {NoSources, SourcesOf(<<>>), SourcesOf(<<NameA>>)}

\* ------------------------------------------------------------ PDF bodies
\* An uploaded body is corrupt (PyPDFLoader raises on it) or readable, with
\* the sequence of the text lengths of its pages.
Corrupt == [kind |-> "corrupt", pages |-> <<>>]
Pdf(pages) == [kind |-> "pdf", pages |-> pages]
Bodies == {Corrupt, Pdf(<<>>), Pdf(<<0>>), Pdf(<<1000>>)}
Absent == [kind |-> "absent", pages |-> <<>>]

\* pdfDir maps every file name to its body, or Absent.
\* os.listdir(PDF_DIR): the names present (order chosen by the file system).
listdir(dir) == {f \in FileNames : dir[f] # Absent}

Perms(S) ==
    {p \in [1..Cardinality(S) -> S] : \A i, j \in 1..Cardinality(S) : p[i] = p[j] => i = j}

\* Every order in which os.listdir can return some set of names
Orders == UNION {Perms(S) : S \in SUBSET FileNames}

\* PyPDFLoader(pdf_path).load(): one Document per page, metadata source/page
PyPDFLoad(fname, body) ==
    [i \in 1..Len(body.pages) |->
        [source |-> join(PDF_DIR, fname), page |-> i - 1, len |-> body.pages[i]]]

\* ingest_docs step 1: the loop over os.listdir. Non-PDF names are skipped;
\* a loader exception is not caught, so it ends the whole script. The result
\* is the accumulated documents, or raised = TRUE.
RECURSIVE LoadAllFrom(_, _, _, _)
LoadAllFrom(dir, order, i, documents) ==
    IF i > Len(order) THEN [raised |-> FALSE, documents |-> documents]
    ELSE IF ~IsPdfName(order[i]) THEN LoadAllFrom(dir, order, i + 1, documents)
    ELSE IF dir[order[i]].kind = "corrupt" THEN [raised |-> TRUE, documents |-> <<>>]
    ELSE LoadAllFrom(dir, order, i + 1,
                     documents \o PyPDFLoad(order[i], dir[order[i]]))

LoadAll(dir, order) == LoadAllFrom(dir, order, 1, <<>>)

\* RecursiveCharacterTextSplitter(chunk_size, chunk_overlap) on a page of
\* `len` characters without softer separators: windows of chunk_size that
\* step by chunk_size - chunk_overlap; empty text gives no chunk.
NumChunks(len) ==
    IF len = 0 THEN 0
    ELSE IF len <= chunk_size THEN 1
    ELSE LET step == chunk_size - chunk_overlap
             rest == len - chunk_size
         IN 1 + ((rest + step - 1) \div step)

SplitPage(doc) ==
    [k \in 1..NumChunks(doc.len) |->
        [source |-> doc.source, page |-> doc.page, part |-> k - 1]]

RECURSIVE split_documents(_)
split_documents(documents) ==
    IF documents = <<>> THEN <<>>
    ELSE SplitPage(Head(documents)) \o split_documents(Tail(documents))

Min(a, b) == IF a < b THEN a ELSE b

\* Chroma.from_documents(..., persist_directory=CHROMA_DIR): the texts are
\* added to the collection persisted in that directory, batch by batch.
\* One batch:
AddBatch(idx, batch) == idx \o batch

\* ingest_docs returning early (no documents / no chunks): the persisted
\* collection is not opened at all.
\* Variant: an empty rebuild replaces the collection.
IndexOnAbortWipe(idx) == <<>>

IndexOnAbort(idx) == idx

NextBatch(chunks, written) ==
    SubSeq(chunks, written + 1, Min(Len(chunks), written + max_batch_size))

\* retriever.get_relevant_documents: up to TopK entries of the observed
\* collection, ranked by similarity (any ranking is possible).
TopKLists(obs) ==
    LET n == Min(TopK, Len(obs))
    IN {[i \in 1..n |-> obs[r[i]]] :
          r \in {q \in [1..n -> 1..Len(obs)] : \A i, j \in 1..n : q[i] = q[j] => i = j}}

\* ask_question: the source filter loop (payload.sources truthy)
RECURSIVE FilterDocsFrom(_, _, _, _)
FilterDocsFrom(docs, allowed, i, filtered_docs) ==
    IF i > Len(docs) THEN filtered_docs
    ELSE LET meta == docs[i]
             src_path == meta.source
             name == IF src_path # <<>> THEN basename(src_path) ELSE <<>>
         IN FilterDocsFrom(docs, allowed, i + 1,
                IF name \in allowed THEN Append(filtered_docs, docs[i])
                ELSE filtered_docs)

Truthy(sources) == sources.given /\ sources.list # <<>>

SetOf(seq) == {seq[i] : i \in 1..Len(seq)}

\* Variant: payload.sources is ignored.
FilterDocsOff(docs, sources) == docs

FilterDocs(docs, sources) ==
    IF Truthy(sources) THEN FilterDocsFrom(docs, SetOf(sources.list), 1, <<>>)
    ELSE docs

\* ask_question: sources.append(metadata) for every used document
Metadata(d) == [source |-> d.source, page |-> d.page]

BuildSources(docs) == [i \in 1..Len(docs) |-> Metadata(docs[i])]

\* ------------------------------------------------------------------ state
VARIABLES
    phase,          \* "boot", "boot2" (startup_event running), "serving", "dead"
    retriever,      \* the global `retriever`
    groq_client,    \* the global `groq_client`: TRUE once set
    pdfDir,         \* contents of data/pdfs
    index,          \* the collection persisted in data/chroma
    upload,         \* the /upload requests (handler runs on the event loop)
    ingest,         \* the ingest.py subprocess of each /upload
    ask,            \* the /ask requests (handler runs on a worker thread)
    completedIndex, \* collection contents when run_ingest_blocking last reloaded
    ingestedIndex   \* collection contents when ingest.py last exited with 0

vars == <<phase, retriever, groq_client, pdfDir, index, upload, ingest,
          ask, completedIndex, ingestedIndex>>

NoUpload == [pc |-> "idle", status |-> 0, ingestFailed |-> FALSE, reloaded |-> FALSE]

NoIngest == [pc |-> "none", documents |-> <<>>, chunks |-> <<>>, written |-> 0,
             start |-> <<>>, cause |-> ""]

NoAsk == [pc |-> "idle", question |-> <<>>, sources |-> NoSources,
          after |-> FALSE, ready |-> FALSE, retrieved |-> FALSE,
          partial |-> FALSE, saw |-> "none",
          topk |-> <<>>, docs |-> <<>>,
          status |-> 0, answer |-> "", srcs |-> <<>>, llm_calls |-> 0]

Init ==
    /\ phase = "boot"
    /\ retriever = None
    /\ groq_client = FALSE
    /\ pdfDir = [f \in FileNames |-> Absent]
    /\ index = <<>>
    /\ upload = [u \in Uploads |-> NoUpload]
    /\ ingest = [u \in Uploads |-> NoIngest]
    /\ ask = [a \in Asks |-> NoAsk]
    /\ completedIndex = <<>>
    /\ ingestedIndex = <<>>

\* ---------------------------------------------------------------- startup
\* startup_event: load_groq_client() raises without GROQ_API_KEY, and a
\* failed startup stops the server.
StartupGroq(haveKey) ==
    /\ phase = "boot"
    /\ IF haveKey
       THEN groq_client' = TRUE /\ phase' = "boot2"
       ELSE groq_client' = groq_client /\ phase' = "dead"
    /\ UNCHANGED <<retriever, pdfDir, index, upload, ingest, ask, completedIndex, ingestedIndex>>

\* load_retriever(): retriever = get_retriever()
StartupRetriever(ok) ==
    /\ phase = "boot2"
    /\ IF ok
       THEN /\ retriever' = Handle(retriever.id + 1, index)
            /\ phase' = "serving"
       ELSE /\ UNCHANGED retriever
            /\ phase' = "dead"
    /\ UNCHANGED <<groq_client, pdfDir, index, upload, ingest, ask, completedIndex, ingestedIndex>>

\* The app object serving requests although startup_event never ran (the
\* case the 503 guard of ask_question is written for).
ServeWithoutStartup ==
    /\ phase = "boot"
    /\ phase' = "serving"
    /\ UNCHANGED <<retriever, groq_client, pdfDir, index, upload, ingest, ask,
                   completedIndex, ingestedIndex>>

\* ----------------------------------------------------------------- upload
\* upload_pdf is `async def` and never awaits: from its first line to its
\* return it occupies the event loop thread, subprocess.run included.
EventLoopBusy == \E v \in Uploads : upload[v].pc \in {"ingesting", "reloaded"}

\* Variant: upload_pdf as a plain `def`, run on a worker thread.
CanDispatchUploadThreaded(u) == TRUE

CanDispatchUpload(u) == ~EventLoopBusy

\* Requests are numbered in the order they reach the server.
UploadArrive(u) ==
    /\ phase = "serving"
    /\ upload[u].pc = "idle"
    /\ u > 1 => upload[u - 1].pc # "idle"
    /\ upload' = [upload EXCEPT ![u].pc = "queued"]
    /\ UNCHANGED <<phase, retriever, groq_client, pdfDir, index, ingest, ask,
                   completedIndex, ingestedIndex>>

\* lines 94-95
UploadReject(u, fname) ==
    /\ upload[u].pc = "queued"
    /\ CanDispatchUpload(u)
    /\ ~IsPdfName(fname)
    /\ upload' = [upload EXCEPT ![u] = [@ EXCEPT !.pc = "done", !.status = 400]]
    /\ UNCHANGED <<phase, retriever, groq_client, pdfDir, index, ingest, ask,
                   completedIndex, ingestedIndex>>

\* lines 97-103: open(save_path, "wb") or the copy raises; the file may
\* already have been created or truncated.
UploadSaveFailed(u, fname, truncated) ==
    /\ upload[u].pc = "queued"
    /\ CanDispatchUpload(u)
    /\ IsPdfName(fname)
    /\ pdfDir' = IF truncated THEN [pdfDir EXCEPT ![fname] = Corrupt] ELSE pdfDir
    /\ upload' = [upload EXCEPT ![u] = [@ EXCEPT !.pc = "done", !.status = 500]]
    /\ UNCHANGED <<phase, retriever, groq_client, index, ingest, ask,
                   completedIndex, ingestedIndex>>

\* lines 97-106 and 74-80: the file is saved, ingest.py is started and the
\* handler blocks in subprocess.run.
UploadSave(u, fname, body) ==
    /\ upload[u].pc = "queued"
    /\ CanDispatchUpload(u)
    /\ IsPdfName(fname)
    /\ pdfDir' = [pdfDir EXCEPT ![fname] = body]
    /\ upload' = [upload EXCEPT ![u] = [@ EXCEPT !.pc = "ingesting"]]
    /\ ingest' = [ingest EXCEPT ![u] = [NoIngest EXCEPT !.pc = "load", !.start = index]]
    /\ UNCHANGED <<phase, retriever, groq_client, index, ask, completedIndex, ingestedIndex>>

\* ------------------------------------------------------- ingest.py process
\* lines 16-30
IngestLoad(u, order) ==
    /\ ingest[u].pc = "load"
    /\ order \in Perms(listdir(pdfDir))
    /\ LET r == LoadAll(pdfDir, order)
       IN /\ ingest' = [ingest EXCEPT ![u] =
                IF r.raised
                THEN [@ EXCEPT !.pc = "exit1", !.cause = "extract"]
                ELSE IF r.documents = <<>>
                THEN [@ EXCEPT !.pc = "exit0"]
                ELSE [@ EXCEPT !.pc = "split", !.documents = r.documents]]
          /\ index' = IF ~r.raised /\ r.documents = <<>> THEN IndexOnAbort(index) ELSE index
    /\ ingestedIndex' = IF ingest'[u].pc = "exit0" THEN index' ELSE ingestedIndex
    /\ UNCHANGED <<phase, retriever, groq_client, pdfDir, upload, ask, completedIndex>>

\* lines 32-43
IngestSplit(u) ==
    /\ ingest[u].pc = "split"
    /\ LET chunks == split_documents(ingest[u].documents)
       IN /\ ingest' = [ingest EXCEPT ![u] =
                IF chunks = <<>>
                THEN [@ EXCEPT !.pc = "exit0"]
                ELSE [@ EXCEPT !.pc = "embed", !.chunks = chunks]]
          /\ index' = IF chunks = <<>> THEN IndexOnAbort(index) ELSE index
    /\ ingestedIndex' = IF ingest'[u].pc = "exit0" THEN index' ELSE ingestedIndex
    /\ UNCHANGED <<phase, retriever, groq_client, pdfDir, upload, ask, completedIndex>>

\* lines 45-48: constructing the embedding model may raise
IngestEmbeddings(u, ok) ==
    /\ ingest[u].pc = "embed"
    /\ ingest' = [ingest EXCEPT ![u] =
            IF ok THEN [@ EXCEPT !.pc = "store"]
            ELSE [@ EXCEPT !.pc = "exit1", !.cause = "embedding"]]
    /\ UNCHANGED <<phase, retriever, groq_client, pdfDir, index, upload, ask,
                   completedIndex, ingestedIndex>>

\* lines 50-57: Chroma.from_documents embeds and adds one batch; either may
\* raise, which ends the script with the earlier batches already persisted.
IngestStore(u, outcome) ==
    /\ ingest[u].pc = "store"
    /\ outcome \in {"ok", "embedding", "store"}
    /\ IF outcome = "ok"
       THEN LET batch == NextBatch(ingest[u].chunks, ingest[u].written)
                done == ingest[u].written + Len(batch) = Len(ingest[u].chunks)
            IN /\ index' = AddBatch(index, batch)
               /\ ingest' = [ingest EXCEPT ![u] =
                      [@ EXCEPT !.written = @ + Len(batch),
                                !.pc = IF done THEN "exit0" ELSE "store"]]
       ELSE /\ index' = index
            /\ ingest' = [ingest EXCEPT ![u] = [@ EXCEPT !.pc = "exit1", !.cause = outcome]]
    /\ ingestedIndex' = IF ingest'[u].pc = "exit0" THEN index' ELSE ingestedIndex
    /\ UNCHANGED <<phase, retriever, groq_client, pdfDir, upload, ask, completedIndex>>

\* ------------------------------------------------- upload, after the script
\* lines 82-84 and 107-108
UploadIngestFailed(u) ==
    /\ upload[u].pc = "ingesting"
    /\ ingest[u].pc = "exit1"
    /\ upload' = [upload EXCEPT ![u] = [@ EXCEPT !.pc = "done", !.status = 500,
                                                 !.ingestFailed = TRUE]]
    /\ ingest' = [ingest EXCEPT ![u] = NoIngest]
    /\ UNCHANGED <<phase, retriever, groq_client, pdfDir, index, ask,
                   completedIndex, ingestedIndex>>

\* line 85: load_retriever(); get_retriever() may raise (lines 107-108)
UploadReload(u, ok) ==
    /\ upload[u].pc = "ingesting"
    /\ ingest[u].pc = "exit0"
    /\ IF ok
       THEN /\ retriever' = Handle(retriever.id + 1, index)
            /\ completedIndex' = index
            /\ upload' = [upload EXCEPT ![u] = [@ EXCEPT !.pc = "reloaded", !.reloaded = TRUE]]
       ELSE /\ UNCHANGED <<retriever, completedIndex>>
            /\ upload' = [upload EXCEPT ![u] = [@ EXCEPT !.pc = "done", !.status = 500]]
    /\ ingest' = [ingest EXCEPT ![u] = NoIngest]
    /\ UNCHANGED <<phase, groq_client, pdfDir, index, ask, ingestedIndex>>

\* lines 110-114
UploadRespond(u) ==
    /\ upload[u].pc = "reloaded"
    /\ upload' = [upload EXCEPT ![u] = [@ EXCEPT !.pc = "done", !.status = 200]]
    /\ UNCHANGED <<phase, retriever, groq_client, pdfDir, index, ingest, ask,
                   completedIndex, ingestedIndex>>

\* -------------------------------------------------------------------- ask
\* The event loop hands the request to a worker thread; it can do so only
\* while it is not blocked inside upload_pdf.
AskDispatch(a, question, sources) ==
    /\ phase = "serving"
    /\ ~EventLoopBusy
    /\ ask[a].pc = "idle"
    /\ a > 1 => ask[a - 1].pc # "idle"
    /\ ask' = [ask EXCEPT ![a] =
            [@ EXCEPT !.pc = "start", !.question = question, !.sources = sources,
                      !.after = \E u \in Uploads :
                                    upload[u].pc = "done" /\ upload[u].status = 200]]
    /\ UNCHANGED <<phase, retriever, groq_client, pdfDir, index, upload, ingest,
                   completedIndex, ingestedIndex>>

\* Variant: only the retriever is tested.
HandlesReadyRetrieverOnly(r, g) == r.set

\* lines 124-125
HandlesReady(r, g) == r.set /\ g

\* lines 127-128
QuestionGiven(question) == strip(question) # <<>>

\* lines 123-129
AskGuard(a) ==
    /\ ask[a].pc = "start"
    /\ ask' = [ask EXCEPT ![a] =
            IF ~HandlesReady(retriever, groq_client)
            THEN [@ EXCEPT !.pc = "respond", !.status = 503]
            ELSE IF ~QuestionGiven(ask[a].question)
            THEN [@ EXCEPT !.pc = "respond", !.status = 400, !.ready = TRUE]
            ELSE [@ EXCEPT !.pc = "retrieve", !.ready = TRUE]]
    /\ UNCHANGED <<phase, retriever, groq_client, pdfDir, index, upload, ingest,
                   completedIndex, ingestedIndex>>

\* What a query through handle h can observe: the collection as persisted
\* right now, or as it was when the handle was created.
Observable(h) == {index, h.view}

\* An ingestion that is adding batches, seen at a size strictly between the
\* size before the run and the size after it.
SeenPartial(obs) ==
    \E u \in Uploads :
        /\ upload[u].pc = "ingesting"
        /\ ingest[u].pc = "store"
        /\ Len(ingest[u].start) < Len(obs)
        /\ Len(obs) < Len(ingest[u].start) + Len(ingest[u].chunks)

\* Variant: no short-circuit on an empty document list.
AfterFilterNoFallback(rec, docs) ==
    [rec EXCEPT !.pc = "llm", !.srcs = BuildSources(docs)]

\* lines 153-157 and 159-165: what ask_question does with the documents left
AfterFilter(rec, docs) ==
    IF docs = <<>>
    THEN [rec EXCEPT !.pc = "respond", !.status = 200, !.answer = "fallback",
                     !.srcs = <<>>]
    ELSE [rec EXCEPT !.pc = "llm", !.srcs = BuildSources(docs)]

\* lines 131-165: the global `retriever` is read here, at the call
AskRetrieve(a, obs, topk) ==
    /\ ask[a].pc = "retrieve"
    /\ obs \in Observable(retriever)
    /\ topk \in TopKLists(obs)
    /\ LET docs == FilterDocs(topk, ask[a].sources)
           rec == [ask[a] EXCEPT !.retrieved = TRUE,
                                 !.partial = SeenPartial(obs),
                                 !.saw = IF obs \in {completedIndex, ingestedIndex}
                                         THEN "completed" ELSE "other",
                                 !.topk = topk, !.docs = docs]
       IN ask' = [ask EXCEPT ![a] = AfterFilter(rec, docs)]
    /\ UNCHANGED <<phase, retriever, groq_client, pdfDir, index, upload, ingest,
                   completedIndex, ingestedIndex>>

\* line 132 raising: FastAPI answers 500
AskRetrieveFailed(a) ==
    /\ ask[a].pc = "retrieve"
    /\ ask' = [ask EXCEPT ![a] = [@ EXCEPT !.pc = "respond", !.status = 500,
                                           !.retrieved = TRUE]]
    /\ UNCHANGED <<phase, retriever, groq_client, pdfDir, index, upload, ingest,
                   completedIndex, ingestedIndex>>

\* lines 188-206
AskLLM(a, ok) ==
    /\ ask[a].pc = "llm"
    /\ ask' = [ask EXCEPT ![a] =
            IF ok
            THEN [@ EXCEPT !.pc = "respond", !.status = 200, !.answer = "llm",
                           !.llm_calls = @ + 1]
            ELSE [@ EXCEPT !.pc = "respond", !.status = 500, !.srcs = <<>>,
                           !.llm_calls = @ + 1]]
    /\ UNCHANGED <<phase, retriever, groq_client, pdfDir, index, upload, ingest,
                   completedIndex, ingestedIndex>>

\* The handler returns (or its HTTPException is turned into the response):
\* the request's locals are gone, the client has the status.
AskReturn(a) ==
    /\ ask[a].pc = "respond"
    /\ ask' = [ask EXCEPT ![a] = [NoAsk EXCEPT !.pc = "done", !.status = ask[a].status]]
    /\ UNCHANGED <<phase, retriever, groq_client, pdfDir, index, upload, ingest,
                   completedIndex, ingestedIndex>>

\* The server side without /ask: startup, /upload and ingest.py
NextIngest ==
    \/ \E haveKey \in BOOLEAN : StartupGroq(haveKey)
    \/ \E ok \in BOOLEAN : StartupRetriever(ok)
    \/ ServeWithoutStartup
    \/ \E u \in Uploads : UploadArrive(u)
    \/ \E u \in Uploads, fname \in FileNames : UploadReject(u, fname)
    \/ \E u \in Uploads, fname \in FileNames, truncated \in BOOLEAN :
           UploadSaveFailed(u, fname, truncated)
    \/ \E u \in Uploads, fname \in FileNames, body \in Bodies : UploadSave(u, fname, body)
    \/ \E u \in Uploads, order \in Orders : IngestLoad(u, order)
    \/ \E u \in Uploads : IngestSplit(u)
    \/ \E u \in Uploads, ok \in BOOLEAN : IngestEmbeddings(u, ok)
    \/ \E u \in Uploads, outcome \in {"ok", "embedding", "store"} : IngestStore(u, outcome)
    \/ \E u \in Uploads : UploadIngestFailed(u)
    \/ \E u \in Uploads, ok \in BOOLEAN : UploadReload(u, ok)
    \/ \E u \in Uploads : UploadRespond(u)

\* The /ask requests
NextAsk ==
    \/ \E a \in Asks, question \in Questions, sources \in SourceLists :
           AskDispatch(a, question, sources)
    \/ \E a \in Asks : AskGuard(a)
    \/ \E a \in Asks, obs \in Observable(retriever),
          topk \in UNION {TopKLists(o) : o \in Observable(retriever)} :
           AskRetrieve(a, obs, topk)
    \/ \E a \in Asks : AskRetrieveFailed(a)
    \/ \E a \in Asks, ok \in BOOLEAN : AskLLM(a, ok)
    \/ \E a \in Asks : AskReturn(a)

Next == NextIngest \/ NextAsk

Spec == Init /\ [][Next]_vars

\* /ask writes only `ask`, which no upload or ingest step reads: the runs of
\* the upload side are exactly those of Spec with the /ask steps left out.
SpecIngest == Init /\ [][NextIngest]_vars

\* ------------------------------------------------------------- properties
Running(u) == ingest[u].pc \in {"load", "split", "embed", "store"}

GotList(a) == ask[a].saw # "none"

\* C1: an /ask that retrieves while an ingestion is in progress observes the
\* collection as it was before the run or as it is after it, never at a size
\* strictly between the two.
C1_IngestQueryIsolation == \A a \in Asks : ~ask[a].partial

\* C2: at no time are two ingestion runs in progress; a second run starts
\* only after the first has finished.
C2_AtMostOneIngest ==
    Cardinality({u \in Uploads : upload[u].pc = "ingesting" \/ Running(u)}) <= 1

C2_Witness ==
    \E u, v \in Uploads :
        /\ upload[u].pc = "ingesting" /\ ingest[u].pc = "store"
        /\ upload[v].pc = "queued"

\* C3: a successful ingestion is followed by a reload of the retriever handle
\* onto the rebuilt collection before /upload reports success, and every /ask
\* that starts after a successful /upload response retrieves from the
\* collection as of a completed ingestion.
C3_ReloadAfterIngest ==
    /\ \A u \in Uploads :
          /\ upload[u].status = 200 => upload[u].reloaded
          /\ upload[u].pc = "reloaded" => retriever.set /\ retriever.view = index
    /\ \A a \in Asks : ask[a].after /\ GotList(a) => ask[a].saw = "completed"

\* C4: after a successful ingestion run the collection holds exactly the
\* chunks of the PDFs now in data/pdfs, nothing left over from earlier runs
\* (so ingesting an unchanged set twice equals ingesting it once).
C4_FullRebuild ==
    \A u \in Uploads :
        ingest[u].pc = "exit0" /\ ingest[u].chunks # <<>> => index = ingest[u].chunks

\* C5: a run that finds no PDF pages, or whose chunker yields no chunks,
\* leaves the collection exactly as it was before the run.
C5_AbortOnEmpty ==
    \A u \in Uploads :
        ingest[u].pc = "exit0" /\ ingest[u].chunks = <<>> => index = ingest[u].start

C5_Witness ==
    \E u \in Uploads :
        /\ ingest[u].pc = "exit0" /\ ingest[u].chunks = <<>>
        /\ ingest[u].documents # <<>>
        /\ ingest[u].start # <<>>

\* C6: a PDF whose text extraction fails is skipped alone; the run does not
\* fail because of it.
C6_PartialFailureTolerance ==
    \A u \in Uploads : ingest[u].pc = "exit1" => ingest[u].cause # "extract"

\* C7: when embedding or the index write fails, /upload reports an error, the
\* collection holds exactly what it held before the run, and the retriever
\* handle is not reloaded.
C7_NoPartialRebuild ==
    \A u \in Uploads :
        /\ ingest[u].pc = "exit1" /\ ingest[u].cause \in {"embedding", "store"}
              => index = ingest[u].start
        /\ upload[u].ingestFailed => upload[u].status = 500 /\ ~upload[u].reloaded

\* C8: an /ask left with no documents answers with the fixed fallback and an
\* empty sources list without calling the LLM; an /ask left with documents
\* calls the LLM exactly once before it completes.
C8_EmptyRetrievalFallback ==
    \A a \in Asks :
        GotList(a) =>
            /\ ask[a].docs = <<>> =>
                  /\ ask[a].pc = "respond" /\ ask[a].status = 200
                  /\ ask[a].answer = "fallback" /\ ask[a].srcs = <<>>
                  /\ ask[a].llm_calls = 0
            /\ ask[a].docs # <<>> /\ ask[a].pc = "respond" => ask[a].llm_calls = 1
            /\ ask[a].docs # <<>> /\ ask[a].pc # "respond" => ask[a].llm_calls = 0

C8_Witness ==
    \E a \in Asks :
        /\ ask[a].pc = "respond" /\ GotList(a)
        /\ ask[a].topk # <<>> /\ ask[a].docs = <<>>
        /\ ask[a].answer = "fallback"

\* The file name a source path ends in, read off the path character by
\* character (independent of basename above).
EndsInName(path, fname) ==
    /\ Len(path) > Len(fname)
    /\ path[Len(path) - Len(fname)] = "/"
    /\ \A i \in 1..Len(fname) :
          fname[i] # "/" /\ path[Len(path) - Len(fname) + i] = fname[i]

\* C9: with a non-empty allowed_sources the documents used are exactly the
\* top-k entries whose file name is allowed, in their original order; with
\* none given (or an empty list) the top-k list is used unchanged; the
\* sources returned are the metadata of the used documents in that order.
C9_SourceFiltering ==
    \A a \in Asks :
        GotList(a) =>
            LET topk == ask[a].topk
                docs == ask[a].docs
                lst == ask[a].sources.list
                keep == {i \in 1..Len(topk) :
                            \E j \in 1..Len(lst) : EndsInName(topk[i].source, lst[j])}
            IN /\ IF ask[a].sources.given /\ Len(lst) > 0
                  THEN /\ Len(docs) = Cardinality(keep)
                       /\ \E f \in [1..Len(docs) -> keep] :
                             /\ \A i, j \in 1..Len(docs) : i < j => f[i] < f[j]
                             /\ \A i \in 1..Len(docs) : docs[i] = topk[f[i]]
                  ELSE docs = topk
               /\ ask[a].status = 200 =>
                     /\ Len(ask[a].srcs) = Len(docs)
                     /\ \A i \in 1..Len(docs) :
                           /\ ask[a].srcs[i].source = docs[i].source
                           /\ ask[a].srcs[i].page = docs[i].page

C9_Witness ==
    \E a \in Asks :
        /\ ask[a].pc = "respond" /\ ask[a].status = 200 /\ ask[a].answer = "llm"
        /\ Len(ask[a].topk) = 2 /\ Len(ask[a].docs) = 1
        /\ ask[a].docs[1] = ask[a].topk[2]

\* A step of some /ask handler
AskStep ==
    \E a \in Asks :
        \/ AskGuard(a)
        \/ \E obs \in Observable(retriever) : \E topk \in TopKLists(obs) :
               AskRetrieve(a, obs, topk)
        \/ AskRetrieveFailed(a)
        \/ \E ok \in BOOLEAN : AskLLM(a, ok)
        \/ AskReturn(a)

Blank(q) == \A i \in 1..Len(q) : q[i] = " "

\* C10 as stated: the retriever and the LLM are used only with both handles
\* set and a non-blank question; an unset handle gives 503, a blank question
\* gives 400; /ask never changes the global handles.
C10_AskGuardsAsStated ==
    \A a \in Asks :
        /\ ask[a].retrieved \/ ask[a].llm_calls > 0 => ask[a].ready /\ ~Blank(ask[a].question)
        /\ ask[a].pc \notin {"idle", "start", "done"} /\ ~ask[a].ready => ask[a].status = 503
        /\ ask[a].pc \notin {"idle", "start", "done"} /\ Blank(ask[a].question) =>
              ask[a].status = 400

\* C10, amended: an unset handle gives 503 whatever the question; a blank
\* question gives 400 when both handles are set.
C10_AskGuardsInv ==
    \A a \in Asks :
        /\ ask[a].retrieved \/ ask[a].llm_calls > 0 => ask[a].ready /\ ~Blank(ask[a].question)
        /\ ask[a].ready => retriever.set /\ groq_client
        /\ ask[a].pc \notin {"idle", "start", "done"} =>
              /\ ~ask[a].ready <=> ask[a].status = 503
              /\ ask[a].ready /\ Blank(ask[a].question) <=> ask[a].status = 400

C10_AskGuards ==
    /\ []C10_AskGuardsInv
    /\ [][AskStep => UNCHANGED <<retriever, groq_client>>]_vars

C10_Witness ==
    \E a \in Asks :
        /\ ask[a].pc = "respond" /\ ask[a].status = 400
        /\ retriever.set /\ retriever.id > 1 /\ groq_client

====
